---- MODULE Spec2Model ----
(***************************************************************************)
(* Model of the feed merger service of src/app.py.                         *)
(*                                                                         *)
(* generate_merged_feed(patreon_auth_token) fetches the public (Acast)     *)
(* feed and the personalized (Patreon) feed, reconciles the channel data,  *)
(* merges and numbers the entries, and is memoized per token by            *)
(* cachetools.cached over a TTLCache(maxsize=1024, ttl=60).  The /rss and  *)
(* /atom handlers are `async def` coroutines without any await: a handler  *)
(* occupies the event loop from its first line to its response, the two    *)
(* blocking feedparser.parse calls included.                               *)
(*                                                                         *)
(* Time is the cache's monotonic timer in seconds.  It may advance at any  *)
(* point, in particular while a handler blocks in a fetch.                 *)
(***************************************************************************)
EXTENDS Integers, Sequences, FiniteSets, TLC

(***************************************************************************)
(* Program constants.                                                      *)
(***************************************************************************)
__CACHE_TTL__ == 60
__HTTP_ERROR__ == 400

\* TTLCache(maxsize=1024, ...): the capacity, scaled down from 1024 so that
\* the requests of one behaviour can overflow it.
maxsize == 2

(***************************************************************************)
(* Bounds of the model.                                                    *)
(***************************************************************************)
MaxRequests == 4    \* requests that arrive in one behaviour
TickStep == 30      \* seconds the timer advances in one Tick
MaxClock == 70     \* the timer stops advancing here
MaxEntries == 2     \* entries of one source feed
MaxLinks == 2       \* links of one source channel
MaxStamp == 2       \* published timestamps are 1..MaxStamp

\* The auth tokens: one more than the cache holds.
Creds == 1..(maxsize + 1)
Formats == {"rss", "atom"}
Stamps == 1..MaxStamp

\* All sequences over S of length at most n.
SeqsUpTo(S, n) == UNION {[1..k -> S] : k \in 0..n}

(***************************************************************************)
(* Parsed feeds (feedparser results).                                      *)
(*                                                                         *)
(* A link is [rel, href].  An entry is [id, has_published, published]:     *)
(* has_published = FALSE is an entry without a 'published_parsed' key.     *)
(* A channel is [complete, meta, links, subtitle]: complete = FALSE is a   *)
(* channel that lacks a key _set_feed_data subscripts ('title', 'summary', *)
(* 'language', ..., for the Patreon channel 'links' or 'subtitle').  meta  *)
(* holds the channel's other fields; 'ttl' may be absent.                  *)
(* A fetch result is [has_status, status, feed, entries]: has_status =     *)
(* FALSE is a result without a status attribute (no HTTP response).        *)
(***************************************************************************)
Link(rel, href) == [rel |-> rel, href |-> href]

Entry(id, ts) == [id |-> id, has_published |-> TRUE, published |-> ts]

EntryNoDate(id) == [id |-> id, has_published |-> FALSE, published |-> 0]

Channel(complete, meta, links, subtitle) ==
    [complete |-> complete, meta |-> meta, links |-> links, subtitle |-> subtitle]

\* The fields of a channel whose values all come from source v.
SourceMeta(v, has_ttl, ttl) ==
    [title |-> <<"title", v>>,
     summary |-> <<"summary", v>>,
     language |-> <<"language", v>>,
     rights |-> <<"rights", v>>,
     has_ttl |-> has_ttl,
     ttl |-> ttl,
     author_detail |-> [name |-> <<"name", v>>, email |-> <<"email", v>>],
     image |-> [href |-> <<"href", v>>, title |-> <<"title", v>>, link |-> <<"link", v>>],
     tags |-> <<<<"tag", v>>>>,
     itunes_explicit |-> <<"explicit", v>>,
     itunes_type |-> <<"type", v>>]

EmptyChannel == Channel(FALSE, SourceMeta("none", FALSE, 0), <<>>, "none")

Parsed(status, feed, entries) ==
    [has_status |-> TRUE, status |-> status, feed |-> feed, entries |-> entries]

NoResponse ==
    [has_status |-> FALSE, status |-> 0, feed |-> EmptyChannel, entries |-> <<>>]

HttpError(status) == Parsed(status, EmptyChannel, <<>>)

(***************************************************************************)
(* Exceptions and the outcome of a call.                                   *)
(***************************************************************************)
HTTPException(status_code, detail) ==
    [kind |-> "HTTPException", status_code |-> status_code, detail |-> detail]

OtherException(name) == [kind |-> name, status_code |-> 0, detail |-> name]

NoFeed == [token |-> 0, lastBuildDate |-> 0 - 1, meta |-> [generator |-> "none"],
           links |-> <<>>,
           subtitle |-> "none", entries |-> <<>>]

Raised(exc) == [ok |-> FALSE, exc |-> exc, feed |-> NoFeed]

Returned(feed) == [ok |-> TRUE, exc |-> OtherException("none"), feed |-> feed]

(***************************************************************************)
(* _set_feed_data: the merged channel.                                     *)
(***************************************************************************)
\* Faulty variant: the last self link is taken, not the first.
MergedLinksLastSelf(acast_data, patreon_data) ==
    LET selfs == SelectSeq(patreon_data.links, LAMBDA l : l.rel = "self")
    IN  IF selfs # <<>>
        THEN Append(acast_data.links, [rel |-> "related", href |-> selfs[Len(selfs)].href])
        ELSE acast_data.links

\* next((link for link in patreon_data['links'] if link.get('rel') == 'self'), None)
SelfLinks(links) == SelectSeq(links, LAMBDA l : l.rel = "self")

\* The links given to merged_feed.link(), in call order.
MergedLinks(acast_data, patreon_data) ==
    LET selfs == SelfLinks(patreon_data.links)
    IN  IF selfs # <<>>
        THEN Append(acast_data.links, Link("related", selfs[1].href))
        ELSE acast_data.links

\* Faulty variant: a public channel without ttl takes the personalized
\* channel's ttl, and the title is the personalized channel's.
MergedMetaFromPatreon(acast_data, patreon_data) ==
    LET a == acast_data.meta
        p == patreon_data.meta
    IN  [title |-> p.title,
         description |-> a.summary,
         language |-> a.language,
         rights |-> a.rights,
         ttl |-> IF a.has_ttl THEN a.ttl ELSE IF p.has_ttl THEN p.ttl ELSE __CACHE_TTL__,
         generator |-> "Acast and Patreon",
         author |-> a.author_detail,
         managingEditor |-> a.author_detail.email,
         image |-> a.image,
         category |-> a.tags,
         itunes_explicit |-> a.itunes_explicit,
         itunes_type |-> a.itunes_type,
         itunes_author |-> a.author_detail.name,
         itunes_image |-> a.image.href,
         itunes_summary |-> a.summary,
         itunes_owner |-> a.author_detail]

\* The channel fields _set_feed_data sets besides the links and the subtitle.
MergedMeta(acast_data, patreon_data) ==
    LET a == acast_data.meta
    IN  [title |-> a.title,
         description |-> a.summary,
         language |-> a.language,
         rights |-> a.rights,
         ttl |-> IF a.has_ttl THEN a.ttl ELSE __CACHE_TTL__,
         generator |-> "Acast and Patreon",
         author |-> a.author_detail,
         managingEditor |-> a.author_detail.email,
         image |-> a.image,
         category |-> a.tags,
         itunes_explicit |-> a.itunes_explicit,
         itunes_type |-> a.itunes_type,
         itunes_author |-> a.author_detail.name,
         itunes_image |-> a.image.href,
         itunes_summary |-> a.summary,
         itunes_owner |-> a.author_detail]

\* A subscript of a missing key raises KeyError.
SetFeedDataRaises(acast_data, patreon_data) ==
    ~acast_data.complete \/ ~patreon_data.complete

(***************************************************************************)
(* The entry merge of generate_merged_feed.                                *)
(***************************************************************************)
\* Faulty variant: an unstable sort, which puts an element before its equals.
RECURSIVE InsertSortedUnstable(_, _)
InsertSortedUnstable(sorted, e) ==
    IF sorted = <<>> THEN <<e>>
    ELSE IF e.published <= sorted[Len(sorted)].published
         THEN Append(InsertSortedUnstable(SubSeq(sorted, 1, Len(sorted) - 1), e),
                     sorted[Len(sorted)])
         ELSE Append(sorted, e)

\* list.sort(key=...) is stable: insert each element after the elements
\* whose key is not greater.
RECURSIVE InsertSorted(_, _)
InsertSorted(sorted, e) ==
    IF sorted = <<>> THEN <<e>>
    ELSE IF e.published < sorted[Len(sorted)].published
         THEN Append(InsertSorted(SubSeq(sorted, 1, Len(sorted) - 1), e),
                     sorted[Len(sorted)])
         ELSE Append(sorted, e)

RECURSIVE SortByPublished(_)
SortByPublished(s) ==
    IF s = <<>> THEN <<>>
    ELSE InsertSorted(SortByPublished(SubSeq(s, 1, Len(s) - 1)), s[Len(s)])

\* The key function x['published_parsed'] raises KeyError on an entry
\* without the key; _set_feed_entry_data subscripts entry['published'] too.
SortRaises(raw_entries) ==
    \E i \in 1..Len(raw_entries) : ~raw_entries[i].has_published

\* Faulty variant: enumerate without start=1.
NumberedFromZero(sorted) ==
    [i \in 1..Len(sorted) |->
        [id |-> sorted[i].id, published |-> sorted[i].published,
         itunes_episode |-> i - 1]]

\* enumerate(raw_entries, start=1): the i-th entry gets itunes_episode i.
Numbered(sorted) ==
    [i \in 1..Len(sorted) |->
        [id |-> sorted[i].id, published |-> sorted[i].published,
         itunes_episode |-> i]]

\* The body of generate_merged_feed after both fetches succeeded.
BuildFeed(token, acast_feed, patreon_feed, now) ==
    LET raw_entries == acast_feed.entries \o patreon_feed.entries
    IN  IF SetFeedDataRaises(acast_feed.feed, patreon_feed.feed)
        THEN Raised(OtherException("KeyError"))
        ELSE IF SortRaises(raw_entries)
        THEN Raised(OtherException("KeyError"))
        ELSE Returned([token |-> token,
                       lastBuildDate |-> now,
                       meta |-> MergedMeta(acast_feed.feed, patreon_feed.feed),
                       links |-> MergedLinks(acast_feed.feed, patreon_feed.feed),
                       subtitle |-> patreon_feed.feed.subtitle,
                       entries |-> Numbered(SortByPublished(raw_entries))])

\* The status check after a feedparser.parse: reading .status of a result
\* without one raises AttributeError.
\* Faulty variant: only a status from 500 on is taken as a failure.
StatusCheckServerErrors(parsed, detail) ==
    IF ~parsed.has_status THEN Raised(OtherException("AttributeError"))
    ELSE IF parsed.status >= 500
    THEN Raised(HTTPException(parsed.status, detail))
    ELSE Returned(NoFeed)

StatusCheck(parsed, detail) ==
    IF ~parsed.has_status THEN Raised(OtherException("AttributeError"))
    ELSE IF parsed.status >= __HTTP_ERROR__
    THEN Raised(HTTPException(parsed.status, detail))
    ELSE Returned(NoFeed)

(***************************************************************************)
(* cachetools.TTLCache, as a sequence of [key, expires, value] in          *)
(* least-recently-used order (the OrderedDict of links).                   *)
(***************************************************************************)
HasKey(c, k) == \E i \in 1..Len(c) : c[i].key = k

\* Faulty variant: the least recently used item, whatever its key.
ItemAnyKey(c, k) == c[1]

Item(c, k) == c[CHOOSE i \in 1..Len(c) : c[i].key = k]

Remove(c, k) == SelectSeq(c, LAMBDA e : e.key # k)

\* Faulty variant: an item outlives its expiry by another ttl.
AliveLate(e, time) == time < e.expires + __CACHE_TTL__

\* An item is alive while timer() < link.expires (cachetools 5 and later:
\* an item has expired once exactly ttl seconds have passed).
Alive(e, time) == time < e.expires

\* TTLCache.expire(time)
Expire(c, time) == SelectSeq(c, LAMBDA e : Alive(e, time))

\* cache[k] succeeds (no KeyError)
Hit(c, k, time) == HasKey(c, k) /\ Alive(Item(c, k), time)

\* Faulty variant: a lookup leaves the order alone (first in, first out).
MoveToEndNot(c, k) == c

\* TTLCache.__getitem__ moves the key's link to the end also when expired.
MoveToEnd(c, k) ==
    IF HasKey(c, k) THEN Append(Remove(c, k), Item(c, k)) ELSE c

\* Cache.__setitem__: popitem() while currsize + size > maxsize.
RECURSIVE Evict(_)
Evict(c) == IF Len(c) + 1 > maxsize THEN Evict(Tail(c)) ELSE c

\* Faulty variant: the item is stored already expired (the ttl is not added).
SetItemNoTtl(c, k, v, time) ==
    Append(SelectSeq(c, LAMBDA e : e.key # k),
           [key |-> k, expires |-> time, value |-> v])

\* TTLCache.__setitem__
SetItem(c, k, v, time) ==
    LET live == Expire(c, time)
        room == IF HasKey(live, k) THEN live ELSE Evict(live)
    IN  Append(Remove(room, k),
               [key |-> k, expires |-> time + __CACHE_TTL__, value |-> v])

(***************************************************************************)
(* State.                                                                  *)
(***************************************************************************)
VARIABLES
    clock,      \* the monotonic timer
    cache,      \* the TTLCache of generate_merged_feed
    pending,    \* requests received and not yet started
    running,    \* handlers started and not yet finished
    resp,       \* the last response sent
    arrived,    \* number of requests received
    used,       \* history: the cached tokens, least recently used first
    built       \* per token, the last feed generate_merged_feed built

vars == <<clock, cache, pending, running, resp, arrived, used, built>>

NoBuild == [at |-> 0 - 1, feed |-> NoFeed]

NoResp == [auth |-> 0, fmt |-> "none", status |-> 0, hit |-> FALSE,
           feed |-> NoFeed, exc |-> "none", detail |-> "none",
           fetched |-> 0,
           acast |-> NoResponse, patreon |-> NoResponse]

\* The history of uses after token k was used (stored or looked up), kept
\* to the tokens the cache c holds.
Touched(u, k, c) ==
    Append(SelectSeq(u, LAMBDA x : x # k /\ HasKey(c, x)), k)

Init ==
    /\ clock = 0
    /\ cache = <<>>
    /\ pending = {}
    /\ running = {}
    /\ resp = NoResp
    /\ arrived = 0
    /\ used = <<>>
    /\ built = [c \in Creds |-> NoBuild]

(***************************************************************************)
(* The upstreams.  A fetch may return any result of the given set: the     *)
(* upstream's content changes independently of the service.                *)
(***************************************************************************)
AcastHref == <<"acast", 0>>

\* The personalized feed's own URL carries the token.
PatreonHref(token) == <<"patreon", token>>

GoodAcast == Channel(TRUE, SourceMeta("acast", TRUE, 30), <<Link("alternate", AcastHref)>>, "none")

GoodPatreon(token) ==
    Channel(TRUE, SourceMeta("patreon", TRUE, 15),
            <<Link("self", PatreonHref(token))>>, "sub")

SampleAcast ==
    { HttpError(503),
      Parsed(200, GoodAcast, <<Entry(<<"acast", 1>>, 1)>>),
      Parsed(200, GoodAcast, <<EntryNoDate(<<"acast", 1>>)>>) }

SamplePatreon(token) ==
    { HttpError(401),
      Parsed(200, GoodPatreon(token), <<Entry(<<"patreon", 1>>, 1)>>) }

(***************************************************************************)
(* The handlers rss and atom.                                              *)
(***************************************************************************)
\* Faulty variant: a handler without the `except HTTPException: raise` clause.
ResponseStatusAll500(outcome, rendered) ==
    IF outcome.ok /\ rendered THEN 200 ELSE 500

\* except HTTPException: raise / except Exception: raise HTTPException(500)
\* rendered = FALSE: rss_str() or atom_str() raised.  Whether feedgen renders
\* a feed is left open: every rendering may succeed or raise.
ResponseStatus(outcome, rendered) ==
    IF outcome.ok
    THEN IF rendered THEN 200 ELSE 500
    ELSE IF outcome.exc.kind = "HTTPException"
         THEN outcome.exc.status_code
         ELSE 500

\* fetched: the upstream fetches the call made.
Response(r, outcome, hit, rendered, fetched, acast, patreon) ==
    [auth |-> r.auth, fmt |-> r.fmt,
     status |-> ResponseStatus(outcome, rendered),
     hit |-> hit,
     feed |-> outcome.feed,
     exc |-> IF outcome.ok THEN IF rendered THEN "none" ELSE "ValueError"
             ELSE outcome.exc.kind,
     detail |-> IF outcome.ok THEN "none" ELSE outcome.exc.detail,
     fetched |-> fetched, acast |-> acast, patreon |-> patreon]

\* Faulty variant: handlers that run concurrently (a thread per request).
CanStartAlways == TRUE

\* An `async def` handler without an await runs on the event loop from
\* start to end: no other handler starts while one is running.
CanStart == running = {}

\* Faulty variant: the outcome is stored whether func returned or raised.
CachedAlways(c, k, outcome, time) ==
    Append(SelectSeq(c, LAMBDA e : e.key # k),
           [key |-> k, expires |-> time + __CACHE_TTL__, value |-> outcome.feed])

\* cachetools.cached: the value is stored only after func returned.
Cached(c, k, outcome, time) ==
    IF outcome.ok THEN SetItem(c, k, outcome.feed, time) ELSE c

Handler(r, pc, acast) == [req |-> r, pc |-> pc, acast |-> acast]

\* A request is received.
Arrive(limit) ==
    /\ arrived < limit
    /\ \E a \in Creds, f \in Formats :
          /\ [auth |-> a, fmt |-> f] \notin pending
          /\ pending' = pending \cup {[auth |-> a, fmt |-> f]}
    /\ arrived' = arrived + 1
    /\ UNCHANGED <<clock, cache, running, resp, used, built>>

\* A handler starts with the cache lookup of the cached wrapper.  On a hit it
\* renders and responds at once; on a miss it blocks in the public fetch.
Dispatch ==
    /\ CanStart
    /\ \E r \in pending :
          /\ pending' = pending \ {r}
          /\ cache' = MoveToEnd(cache, r.auth)
          /\ IF Hit(cache, r.auth, clock)
             THEN /\ \E rendered \in BOOLEAN :
                       resp' = Response(r, Returned(Item(cache, r.auth).value),
                                        TRUE, rendered, 0, NoResponse, NoResponse)
                  /\ UNCHANGED running
             ELSE /\ running' = running \cup {Handler(r, "acast", NoResponse)}
                  /\ UNCHANGED resp
          /\ used' = IF HasKey(cache, r.auth)
                     THEN Touched(used, r.auth, cache')
                     ELSE used
    /\ UNCHANGED <<clock, arrived, built>>

\* feedparser.parse(__ACAST_URL) returns; the status check follows.
FetchAcast(results) ==
    \E h \in running, res \in results :
        /\ h.pc = "acast"
        /\ LET check == StatusCheck(res, "Error fetching Acast feed")
           IN  IF check.ok
               THEN /\ running' = (running \ {h}) \cup {Handler(h.req, "patreon", res)}
                    /\ UNCHANGED resp
               ELSE /\ running' = running \ {h}
                    /\ resp' = Response(h.req, check, FALSE, FALSE, 1, res, NoResponse)
        /\ UNCHANGED <<clock, cache, pending, arrived, used, built>>

\* feedparser.parse(__PATREON_URL.format(...)) returns; the rest of
\* generate_merged_feed, the store of the cached wrapper and the rendering
\* follow without suspension.  results[t]: the possible results for token t.
FetchPatreon(results) ==
    \E h \in running :
      \E res \in results[h.req.auth], rendered \in BOOLEAN :
        /\ h.pc = "patreon"
        /\ running' = running \ {h}
        /\ LET check == StatusCheck(res, "Error fetching Patreon feed. Auth token correct?")
               outcome == IF check.ok
                          THEN BuildFeed(h.req.auth, h.acast, res, clock)
                          ELSE check
           IN  /\ cache' = Cached(cache, h.req.auth, outcome, clock)
               /\ built' = IF outcome.ok
                           THEN [built EXCEPT ![h.req.auth] =
                                    [at |-> clock, feed |-> outcome.feed]]
                           ELSE built
               /\ used' = IF outcome.ok
                          THEN Touched(used, h.req.auth, cache')
                          ELSE used
               /\ resp' = Response(h.req, outcome, FALSE, outcome.ok /\ rendered,
                                   2, h.acast, res)
        /\ UNCHANGED <<clock, pending, arrived>>

\* Time passes.
Tick ==
    /\ clock + TickStep <= MaxClock
    /\ clock' = clock + TickStep
    /\ UNCHANGED <<cache, pending, running, resp, arrived, used, built>>

(***************************************************************************)
(* The inputs of the merge: every pair of entry lists, every pair of       *)
(* channels, every kind of fetch result, within the bounds.                *)
(***************************************************************************)
\* Entry lists of one source: stamp 0 stands for an entry without a date.
AllEntries(src) ==
    { [i \in 1..Len(d) |-> IF d[i] = 0 THEN EntryNoDate(<<src, i>>)
                                       ELSE Entry(<<src, i>>, d[i])] :
        d \in SeqsUpTo(0..MaxStamp, MaxEntries) }

AllAcastChannels ==
    { Channel(c, SourceMeta("acast", TRUE, 30), l, "none") :
        c \in BOOLEAN,
        l \in SeqsUpTo({Link(rel, AcastHref) : rel \in {"alternate", "self", "related"}},
                       MaxLinks) }

AllPatreonChannels(token) ==
    { Channel(c, SourceMeta("patreon", TRUE, 15), l, "sub") :
        c \in BOOLEAN,
        l \in SeqsUpTo({Link(rel, PatreonHref(t)) :
                            rel \in {"self", "alternate"}, t \in {0, token}},
                       MaxLinks) }

\* Channels that differ in their fields, with and without a ttl.
AcastMetaChannels ==
    { Channel(TRUE, SourceMeta(v, b, 30), GoodAcast.links, "none") :
        v \in {"acast", "other"}, b \in BOOLEAN }

PatreonMetaChannels(token) ==
    { Channel(TRUE, SourceMeta(v, b, 15), GoodPatreon(token).links, sub) :
        v \in {"patreon", "other"}, b \in BOOLEAN, sub \in {"sub", "sub2"} }

FetchErrors == {NoResponse} \cup {HttpError(st) : st \in {400, 404, 503}}

AllAcast ==
    FetchErrors
    \cup {Parsed(st, GoodAcast, <<Entry(<<"acast", 1>>, 1)>>) : st \in {301, 399}}
    \cup {Parsed(200, GoodAcast, e) : e \in AllEntries("acast")}
    \cup {Parsed(200, ch, <<Entry(<<"acast", 1>>, 1)>>) :
            ch \in AllAcastChannels \cup AcastMetaChannels}

AllPatreon(token) ==
    FetchErrors
    \cup {Parsed(200, GoodPatreon(token), e) : e \in AllEntries("patreon")}
    \cup {Parsed(200, ch, <<Entry(<<"patreon", 1>>, 1)>>) :
            ch \in AllPatreonChannels(token) \cup PatreonMetaChannels(token)}

Next ==
    \/ Arrive(MaxRequests)
    \/ Dispatch
    \/ FetchAcast(SampleAcast)
    \/ FetchPatreon([t \in Creds |-> SamplePatreon(t)])
    \/ Tick

Spec == Init /\ [][Next]_vars

\* One request, over every input of the merge.
NextMerge ==
    \/ Arrive(1)
    \/ Dispatch
    \/ FetchAcast(AllAcast)
    \/ FetchPatreon([t \in Creds |-> AllPatreon(t)])

SpecMerge == Init /\ [][NextMerge]_vars

(***************************************************************************)
(* Properties of one build, read off the last response: resp.acast and     *)
(* resp.patreon are the fetch results the call got, resp.feed the feed     *)
(* generate_merged_feed returned.                                          *)
(***************************************************************************)
\* The last call ran generate_merged_feed's body to its return.
BuiltNow == ~resp.hit /\ resp.fetched = 2 /\ resp.feed # NoFeed

RawEntries == resp.acast.entries \o resp.patreon.entries

\* The place of an entry in the concatenation acast entries + patreon entries.
RawIndex(id) == CHOOSE k \in 1..Len(RawEntries) : RawEntries[k].id = id

CountRel(links, rel) == Len(SelectSeq(links, LAMBDA l : l.rel = rel))

\* C5: the merged entries are the concatenated entries, sorted
\* non-decreasing by published timestamp, and entries with equal timestamps
\* keep their concatenation order (public before personalized).
C5_SortedStable ==
    BuiltNow =>
        LET m == resp.feed.entries
        IN  /\ Len(m) = Len(RawEntries)
            /\ {m[i].id : i \in 1..Len(m)} = {RawEntries[k].id : k \in 1..Len(RawEntries)}
            /\ \A i \in 1..Len(m) : m[i].published = RawEntries[RawIndex(m[i].id)].published
            /\ \A i, j \in 1..Len(m) :
                  i < j =>
                    /\ m[i].published <= m[j].published
                    /\ m[i].published = m[j].published
                          => RawIndex(m[i].id) < RawIndex(m[j].id)
                    /\ (m[i].published = m[j].published /\ m[j].id[1] = "acast")
                          => m[i].id[1] = "acast"

\* A merge that reordered the entries and had a public and a personalized
\* entry with the same timestamp.
C5_Witness ==
    /\ BuiltNow
    /\ LET m == resp.feed.entries
       IN  /\ \E i \in 1..Len(m) : RawIndex(m[i].id) # i
           /\ \E i, j \in 1..Len(m) :
                 /\ i < j
                 /\ m[i].published = m[j].published
                 /\ m[i].id[1] = "acast"
                 /\ m[j].id[1] = "patreon"

\* C6: the episode numbers of a merged feed, in merged order, are 1, 2, ..., N
\* with N the number of merged entries.
C6_EpisodesDense ==
    BuiltNow =>
        LET m == resp.feed.entries
        IN  /\ \A i \in 1..Len(m) : m[i].itunes_episode = i
            /\ {m[i].itunes_episode : i \in 1..Len(m)} = 1..Len(m)
            /\ Len(m) = Len(RawEntries)

\* A merged feed of at least three entries, in another order than fetched.
C6_Witness ==
    /\ BuiltNow
    /\ Len(resp.feed.entries) >= 3
    /\ \E i \in 1..Len(resp.feed.entries) : RawIndex(resp.feed.entries[i].id) # i

\* Both fetches returned a status below 400 and complete channels.
FetchedBoth ==
    /\ ~resp.hit /\ resp.fetched = 2
    /\ resp.acast.has_status /\ resp.acast.status < __HTTP_ERROR__
    /\ resp.patreon.has_status /\ resp.patreon.status < __HTTP_ERROR__
    /\ resp.acast.feed.complete /\ resp.patreon.feed.complete

\* C7: an entry without a published timestamp is left out and the merge of
\* the others completes: the merged entries are exactly the entries with a
\* timestamp and the request does not fail in the build.
C7_UndatedEntriesSkipped ==
    FetchedBoth =>
        LET dated == SelectSeq(RawEntries, LAMBDA e : e.has_published)
        IN  /\ resp.feed # NoFeed
            /\ resp.exc \in {"none", "ValueError"}
            /\ Len(resp.feed.entries) = Len(dated)
            /\ {resp.feed.entries[i].id : i \in 1..Len(resp.feed.entries)}
                  = {dated[k].id : k \in 1..Len(dated)}

AcastFailed ==
    resp.fetched >= 1 /\ resp.acast.has_status /\ resp.acast.status >= __HTTP_ERROR__

PatreonFailed ==
    resp.fetched = 2 /\ resp.patreon.has_status /\ resp.patreon.status >= __HTTP_ERROR__

\* C8: a response after an upstream fetch failure carries the upstream's
\* status and an error detail; after any other failure in build or rendering
\* the status is 500; an error raised with an upstream status is never
\* turned into a 500.
C8_StatusPassthrough ==
    /\ AcastFailed =>
          /\ resp.status = resp.acast.status
          /\ resp.detail = "Error fetching Acast feed"
          /\ resp.fetched = 1
    /\ PatreonFailed =>
          /\ resp.status = resp.patreon.status
          /\ resp.detail = "Error fetching Patreon feed. Auth token correct?"
    /\ (resp.exc # "none" /\ ~AcastFailed /\ ~PatreonFailed) => resp.status = 500
    /\ resp.exc = "HTTPException" =>
          /\ AcastFailed \/ PatreonFailed
          /\ resp.status \in {resp.acast.status, resp.patreon.status}
          /\ resp.status # 500
    /\ resp.exc = "none" => (resp.status = 200 \/ resp = NoResp)

\* A public fetch that returned 503 and a response with status 503.
C8_Witness ==
    /\ AcastFailed
    /\ resp.acast.status = 503
    /\ resp.status = 503

\* C9 as stated: without a self link in the personalized feed the merged
\* links hold no "related" link; with one, exactly one "related" link, whose
\* href is the self link's, follows all of the public feed's links.
C9_RelatedOnlyFromSelf ==
    BuiltNow =>
        LET a == resp.acast.feed.links
            p == resp.patreon.feed.links
            m == resp.feed.links
        IN  IF CountRel(p, "self") = 0
            THEN CountRel(m, "related") = 0
            ELSE /\ CountRel(m, "related") = 1
                 /\ Len(m) = Len(a) + 1
                 /\ SubSeq(m, 1, Len(a)) = a
                 /\ m[Len(m)].rel = "related"
                 /\ \E k \in 1..Len(p) : p[k].rel = "self" /\ m[Len(m)].href = p[k].href

\* C9, amended: without a self link in the personalized feed the merged
\* links are the public feed's links and nothing else; with one, exactly one
\* link is appended after them, with rel "related" and the href of the
\* personalized feed's first self link.  A "related" link of the public
\* feed itself is passed on like its other links.
C9_RelatedAppendedFromSelf ==
    BuiltNow =>
        LET a == resp.acast.feed.links
            p == resp.patreon.feed.links
            m == resp.feed.links
        IN  IF CountRel(p, "self") = 0
            THEN /\ Len(m) = Len(a)
                 /\ \A i \in 1..Len(a) : m[i] = a[i]
                 /\ CountRel(m, "related") = CountRel(a, "related")
            ELSE /\ Len(m) = Len(a) + 1
                 /\ \A i \in 1..Len(a) : m[i] = a[i]
                 /\ CountRel(m, "related") = CountRel(a, "related") + 1
                 /\ m[Len(m)].rel = "related"
                 /\ \E k \in 1..Len(p) :
                       /\ p[k].rel = "self"
                       /\ \A n \in 1..(k - 1) : p[n].rel # "self"
                       /\ m[Len(m)].href = p[k].href

\* A personalized feed with two self links of different hrefs, merged with a
\* public feed that has a "related" link of its own.
C9_Witness ==
    /\ BuiltNow
    /\ CountRel(resp.acast.feed.links, "related") >= 1
    /\ \E i, j \in 1..Len(resp.patreon.feed.links) :
          /\ i < j
          /\ resp.patreon.feed.links[i].rel = "self"
          /\ resp.patreon.feed.links[j].rel = "self"
          /\ resp.patreon.feed.links[i].href # resp.patreon.feed.links[j].href

(***************************************************************************)
(* Properties of the cache, over the steps of the service.                 *)
(***************************************************************************)
\* This step starts the handler of request r.
Starts(r) == r \in pending /\ pending' = pending \ {r}

\* This step ends a handler.
Ends == \E h \in running : running' = running \ {h}

\* Token c has a build behind it whose ttl window is still open.
WithinTTL(c) == built[c] # NoBuild /\ clock < built[c].at + __CACHE_TTL__

\* C1 as stated: a call for c within the ttl window after a successful
\* build for c returns the feed of that build without a fetch and without
\* running the builder, whatever the format asked for; the build itself
\* made one public and one personalized fetch.
C1_OneFetchPairPerWindow ==
    [][ /\ \A r \in pending :
             (Starts(r) /\ WithinTTL(r.auth)) =>
                /\ resp'.hit /\ resp'.auth = r.auth /\ resp'.fmt = r.fmt
                /\ resp'.feed = built[r.auth].feed
                /\ resp'.fetched = 0
                /\ running' = running
                /\ built' = built
        /\ built' # built => (~resp'.hit /\ resp'.fetched = 2)
      ]_vars

\* C1, amended: the same, for a call that finds the entry of c still in the
\* cache, that is, not evicted by a capacity overflow since the build.
C1_OneFetchPairUnlessEvicted ==
    [][ /\ \A r \in pending :
             (Starts(r) /\ WithinTTL(r.auth) /\ HasKey(cache, r.auth)) =>
                /\ resp'.hit /\ resp'.auth = r.auth /\ resp'.fmt = r.fmt
                /\ resp'.feed = built[r.auth].feed
                /\ resp'.fetched = 0
                /\ running' = running
                /\ built' = built
        /\ built' # built => (~resp'.hit /\ resp'.fetched = 2)
      ]_vars

\* An /atom request answered from the cache, later than the build.
C1_Witness ==
    /\ resp.hit
    /\ resp.fmt = "atom"
    /\ resp.feed = built[resp.auth].feed
    /\ clock > built[resp.auth].at

C3_FailedBuildNotCached ==
    [][ /\ (Ends /\ ~resp'.hit /\ resp'.feed = NoFeed) =>
             (cache' = cache /\ built' = built)
        /\ \A i \in 1..Len(cache') :
             /\ cache'[i].value # NoFeed
             /\ cache'[i].value.token = cache'[i].key
             /\ cache'[i].value = built'[cache'[i].key].feed
        /\ \A r \in pending :
             (Starts(r) /\ ~(HasKey(cache, r.auth) /\ WithinTTL(r.auth))) =>
                \E h \in running' : h.req = r /\ h.pc = "acast"
        /\ resp'.hit => (resp'.feed # NoFeed /\ resp'.exc \in {"none", "ValueError"})
      ]_vars

\* A build for a token failed in the merge while the cache holds an expired
\* entry of that token and an entry of another.
C3_Witness ==
    /\ ~resp.hit /\ resp.fetched = 2 /\ resp.exc = "KeyError"
    /\ HasKey(cache, resp.auth)
    /\ Len(cache) = 2

\* C4: at most one build per token is in flight at any time, and a build's
\* result is stored only when the cache holds no fresh entry of the token.
C4_SingleFlight ==
    [][ /\ \A c \in Creds :
             /\ Cardinality({h \in running' : h.req.auth = c}) <= 1
             /\ built'[c] # built[c] => ~Hit(cache, c, clock)
        /\ cache' # cache =>
             \/ \E r \in pending : Starts(r)
             \/ Ends /\ ~resp'.hit /\ resp'.feed # NoFeed
      ]_vars

\* A build for a token is in flight while another request for the same
\* token waits.
C4_Witness ==
    \E h \in running, r \in pending : r.auth = h.req.auth /\ r.fmt # h.req.fmt

\* The tokens of the unexpired entries, least recently used first.
AliveUsed == SelectSeq(used, LAMBDA k : HasKey(cache, k) /\ Alive(Item(cache, k), clock))

\* C10: the cache never holds two entries of one token nor more than
\* maxsize entries, and an unexpired entry leaves the cache only when a new
\* token is stored into a full cache, and then it is the least recently
\* used one.
C10_BoundedLRU ==
    [][ /\ Len(cache') <= maxsize
        /\ \A i, j \in 1..Len(cache') : cache'[i].key = cache'[j].key => i = j
        /\ \A k \in Creds :
             (HasKey(cache, k) /\ Alive(Item(cache, k), clock) /\ ~HasKey(cache', k)) =>
                /\ AliveUsed[1] = k
                /\ Len(AliveUsed) = maxsize
                /\ Len(cache') = maxsize
                /\ \E n \in Creds : HasKey(cache', n) /\ ~HasKey(cache, n)
                /\ \A x \in Creds \ {k} :
                      (HasKey(cache, x) /\ Alive(Item(cache, x), clock)) => HasKey(cache', x)
      ]_vars

\* A full cache from which an unexpired entry was evicted although another
\* entry, still held, was stored before it.
C10_Witness ==
    /\ Len(cache) = maxsize
    /\ \E e, k \in Creds :
          /\ ~HasKey(cache, e)
          /\ WithinTTL(e)
          /\ HasKey(cache, k)
          /\ built[k].at < built[e].at
          /\ Item(cache, k).value = built[k].feed

(***************************************************************************)
(* Properties of the reconciled channel.                                   *)
(***************************************************************************)
\* C11: every channel field sourced from the public feed has the public
\* feed's value, the ttl being the public feed's or, without one, the
\* default; the public links come first and unchanged; the personalized
\* feed gives only the subtitle and the one appended "related" link.
C11_PublicFieldsKept ==
    BuiltNow =>
        LET a == resp.acast.feed.meta
            f == resp.feed.meta
            al == resp.acast.feed.links
            fl == resp.feed.links
        IN  /\ f.title = a.title
            /\ f.description = a.summary
            /\ f.language = a.language
            /\ f.rights = a.rights
            /\ f.ttl = IF a.has_ttl THEN a.ttl ELSE __CACHE_TTL__
            /\ f.author = a.author_detail
            /\ f.managingEditor = a.author_detail.email
            /\ f.image = a.image
            /\ f.category = a.tags
            /\ f.itunes_explicit = a.itunes_explicit
            /\ f.itunes_type = a.itunes_type
            /\ f.itunes_author = a.author_detail.name
            /\ f.itunes_image = a.image.href
            /\ f.itunes_summary = a.summary
            /\ f.itunes_owner = a.author_detail
            /\ Len(fl) \in {Len(al), Len(al) + 1}
            /\ \A i \in 1..Len(al) : fl[i] = al[i]
            /\ Len(fl) = Len(al) + 1 => fl[Len(fl)].rel = "related"
            /\ resp.feed.subtitle = resp.patreon.feed.subtitle

\* A merge of a public channel without ttl with a personalized channel that
\* has one and differs from the public channel in every field.
C11_Witness ==
    /\ BuiltNow
    /\ ~resp.acast.feed.meta.has_ttl
    /\ resp.patreon.feed.meta.has_ttl
    /\ resp.patreon.feed.meta.title # resp.acast.feed.meta.title
    /\ resp.patreon.feed.subtitle = "sub2"

(***************************************************************************)
(* Builds for different tokens.                                            *)
(***************************************************************************)
\* C12: builds for different credentials are not serialized: while a build
\* for one token is blocked in an upstream fetch, the handler of a pending
\* request for another token can start (and so run its own build).
\* The handlers are coroutines that never yield, so this does not hold.
C12_UnrelatedBuildsOverlap ==
    \A h \in running, r \in pending :
        r.auth # h.req.auth => ENABLED (Dispatch /\ Starts(r))

(***************************************************************************)
(* Order of the two fetches within one build.                              *)
(***************************************************************************)
\* C13: the personalized feed is requested only after the public fetch has
\* returned with a status below 400: a handler waiting for the personalized
\* feed holds a public result with such a status, and a build whose public
\* fetch returned a status >= 400 fails after that one fetch, without a
\* personalized request and without a feed.
C13_PatreonAfterAcastOk ==
    /\ \A h \in running :
          h.pc = "patreon" =>
              h.acast.has_status /\ h.acast.status < __HTTP_ERROR__
    /\ (~resp.hit /\ resp.fetched = 2) =>
          resp.acast.has_status /\ resp.acast.status < __HTTP_ERROR__
    /\ (resp.acast.has_status /\ resp.acast.status >= __HTTP_ERROR__) =>
          /\ resp.fetched = 1
          /\ resp.patreon = NoResponse
          /\ resp.feed = NoFeed
          /\ resp.exc = "HTTPException"

\* A public fetch that returned 404: the build failed after one fetch.
C13_Witness ==
    /\ resp.acast.has_status /\ resp.acast.status = 404
    /\ resp.fetched = 1
    /\ resp.patreon = NoResponse
    /\ resp.status = 404

(***************************************************************************)
(* Isolation of the tokens in the cache.                                   *)
(***************************************************************************)
\* C14: a feed returned to a request with token A, built or taken from the
\* cache, was built for A from a personalized fetch made with A: its
\* "related" link is A's personalized address, a hit returns the last feed
\* built for A, and every feed the cache holds is stored under its own token.
C14_CacheIsolation ==
    /\ resp.feed # NoFeed =>
          /\ resp.feed.token = resp.auth
          /\ \A i \in 1..Len(resp.feed.links) :
                resp.feed.links[i].rel = "related" =>
                    resp.feed.links[i].href = PatreonHref(resp.auth)
          /\ resp.hit => resp.feed = built[resp.auth].feed
          /\ ~resp.hit => resp.patreon.feed = GoodPatreon(resp.auth)
    /\ \A i \in 1..Len(cache) :
          /\ cache[i].value.token = cache[i].key
          /\ cache[i].value = built[cache[i].key].feed

\* A hit for one token while the cache holds a live feed of another token
\* and the feed of a third token has been evicted.
C14_Witness ==
    /\ resp.hit /\ resp.feed # NoFeed
    /\ CountRel(resp.feed.links, "related") = 1
    /\ \E i \in 1..Len(cache) :
          cache[i].key # resp.auth /\ Alive(cache[i], clock)
    /\ \E t \in Creds : built[t] # NoBuild /\ ~HasKey(cache, t)

====
